---- MODULE Spec2Model ----
(***************************************************************************)
(* Model of the TRNG one-time-password example (src/main.c).               *)
(*                                                                         *)
(* src/main.c holds two revisions of the program.  Lines 43-233 are the    *)
(* current revision (generate_password draws one word per four characters  *)
(* and normalises with check_range); lines 277-444 are the earlier         *)
(* revision (one word per character, both limits handled inline).  The     *)
(* poll loop of main is the same in both.                                  *)
(*                                                                         *)
(* A 32-bit word is a tuple of four bytes, least significant first:        *)
(* <<b0, b1, b2, b3>> stands for b0 + 2^8*b1 + 2^16*b2 + 2^24*b3.          *)
(***************************************************************************)
EXTENDS Integers, Sequences, FiniteSets

\* ---- program constants ----
ASCII_7BIT_MASK == 127
PASSWORD_LENGTH == 8
ASCII_VISIBLE_CHARACTER_START == 33
ASCII_RETURN_CARRIAGE == 13
MAX_TRNG_VAL == 127
ASCII_ALPHANUMERIC_LOWER_LIMIT == 33
ASCII_ALPHANUMERIC_UPPER_LIMIT == 127

\* ---- bounds of the model ----
\* number of carriage returns the input source delivers
MaxTriggers == 2
\* number of distinct words the entropy source can return
NumWords == 3

\* ---- environment ----
\* bytes the input source can deliver: CR, LF, 'A'
InputBytes == {13, 10, 65}

\* words the entropy source can return (least significant byte first)
TrngSamples ==
  << <<127, 32, 33, 126>>,
     <<0, 255, 128, 160>>,
     <<32, 13, 254, 65>>,
     <<126, 161, 90, 0>>,
     <<33, 127, 18, 255>>,
     <<120, 86, 52, 18>> >>

RandomWords ==
  { TrngSamples[i] : i \in { n \in 1..Len(TrngSamples) : n <= NumWords } }

\* values an uninitialised stack byte may hold
GarbageBytes == {0, 165}

SUCCESS == "CY_RSLT_SUCCESS"
FAILURE == "CY_RSLT_ERROR"

VARIABLES
  pc,               \* position of the single thread of control
  uart_read_value,  \* global input buffer
  getc_ok,          \* cyhal_uart_getc(...) == CY_RSLT_SUCCESS of this iteration
  result,           \* generate_password: result of cyhal_trng_init
  index,            \* generate_password: write index
  j,                \* generate_password: inner loop counter
  bit_position,     \* generate_password: shift amount
  random_val,       \* generate_password: the word drawn
  temp_value,       \* generate_password: byte being normalised
  password,         \* generate_password: buffer of PASSWORD_LENGTH + 1 bytes
  held,             \* the TRNG block is initialised (handle held)
  stdout,           \* lines written to the terminal since the poll loop started
  candidate,        \* history: the 7-bit value last passed to the range correction
  words,            \* history: words drawn by this call of generate_password
  triggers,         \* history: carriage returns successfully read
  invocations,      \* history: calls of generate_password
  acquired,         \* history: successful cyhal_trng_init calls
  failed,           \* history: failed cyhal_trng_init calls
  freed,            \* history: cyhal_trng_free calls
  draws             \* history: cyhal_trng_generate calls

vars == << pc, uart_read_value, getc_ok, result, index, j, bit_position,
           random_val, temp_value, password, held, stdout, candidate, words,
           triggers, invocations, acquired, failed, freed, draws >>

locals == << result, index, j, bit_position, random_val, temp_value, password,
             candidate, words >>

history == << triggers, invocations, acquired, failed, freed, draws >>

\* ---- 32-bit and 8-bit arithmetic ----
ZeroWord == <<0, 0, 0, 0>>

Byte(w, i) == IF i \in 1..4 THEN w[i] ELSE 0

\* w >> n on a 32-bit unsigned word, 0 <= n < 32
ShiftRight(w, n) ==
  LET q == n \div 8
      r == n % 8
  IN  [ i \in 1..4 |->
          ((Byte(w, i + q) \div (2 ^ r)) + (Byte(w, i + q + 1) % (2 ^ r)) * (2 ^ (8 - r))) % 256 ]

\* w & mask for a mask of the form 2^k - 1 with k <= 8
AndLowMask(w, mask) == <<w[1] % (mask + 1), 0, 0, 0>>

\* conversion of a 32-bit word to uint8_t
ToUint8(w) == w[1]

ZeroBuffer == [ i \in 0..PASSWORD_LENGTH |-> 0 ]

\* the characters printf("%s") writes for buffer p: those before the first 0
RECURSIVE StrLenFrom(_, _)
StrLenFrom(p, i) ==
  IF i > PASSWORD_LENGTH THEN 0
  ELSE IF p[i] = 0 THEN 0
  ELSE 1 + StrLenFrom(p, i + 1)

StrLen(p) == StrLenFrom(p, 0)

\* ---- check_range (current revision) ----
\* mutant: the comparison includes the boundary value
check_range_inclusive(value) ==
  IF value <= ASCII_VISIBLE_CHARACTER_START
    THEN (value + ASCII_VISIBLE_CHARACTER_START) % 256
    ELSE value

check_range(value) ==
  IF value < ASCII_VISIBLE_CHARACTER_START
    THEN (value + ASCII_VISIBLE_CHARACTER_START) % 256
    ELSE value

\* ---- range correction written inline in the earlier revision ----
\* mutant: the upper limit is tested with > instead of >=
range_correct_earlier_strict(v) ==
  IF v[1] < ASCII_ALPHANUMERIC_LOWER_LIMIT /\ v[2] = 0 /\ v[3] = 0 /\ v[4] = 0
    THEN <<v[1] + ASCII_ALPHANUMERIC_LOWER_LIMIT, 0, 0, 0>>
    ELSE IF v[1] > ASCII_ALPHANUMERIC_UPPER_LIMIT \/ v[2] # 0 \/ v[3] # 0 \/ v[4] # 0
      THEN <<v[1] - ASCII_ALPHANUMERIC_LOWER_LIMIT, v[2], v[3], v[4]>>
      ELSE v

\* v is a 32-bit word; after the mask its three high bytes are 0, so the
\* addition and the subtraction stay within the low byte
range_correct_earlier(v) ==
  IF v[1] < ASCII_ALPHANUMERIC_LOWER_LIMIT /\ v[2] = 0 /\ v[3] = 0 /\ v[4] = 0
    THEN <<v[1] + ASCII_ALPHANUMERIC_LOWER_LIMIT, 0, 0, 0>>
    ELSE IF v[1] >= ASCII_ALPHANUMERIC_UPPER_LIMIT \/ v[2] # 0 \/ v[3] # 0 \/ v[4] # 0
      THEN <<v[1] - ASCII_ALPHANUMERIC_LOWER_LIMIT, v[2], v[3], v[4]>>
      ELSE v

\* ---- state on entering the poll loop of main ----
Banner == << [kind |-> "clear", len |-> 0],
             [kind |-> "header", len |-> 0],
             [kind |-> "prompt", len |-> 0] >>

LocalsIdle ==
  /\ result = SUCCESS
  /\ index = 0
  /\ j = 0
  /\ bit_position = 0
  /\ random_val = ZeroWord
  /\ temp_value = 0
  /\ password = ZeroBuffer
  /\ candidate = 0
  /\ words = << >>

\* the locals of generate_password go out of scope
LocalsDiscarded ==
  /\ result' = SUCCESS
  /\ index' = 0
  /\ j' = 0
  /\ bit_position' = 0
  /\ random_val' = ZeroWord
  /\ temp_value' = 0
  /\ password' = ZeroBuffer
  /\ candidate' = 0
  /\ words' = << >>

Init ==
  /\ pc = "getc"
  /\ uart_read_value = 0
  /\ getc_ok = FALSE
  /\ LocalsIdle
  /\ held = FALSE
  /\ stdout = Banner
  /\ triggers = 0
  /\ invocations = 0
  /\ acquired = 0
  /\ failed = 0
  /\ freed = 0
  /\ draws = 0

\* ---- main: the poll loop ----
\* cyhal_uart_getc: a successful read stores the byte, a failed read leaves
\* the buffer as it was
UartGetc ==
  /\ pc = "getc"
  /\ \/ /\ \E b \in InputBytes :
             /\ (b = ASCII_RETURN_CARRIAGE) => (triggers < MaxTriggers)
             /\ uart_read_value' = b
             /\ triggers' = IF b = ASCII_RETURN_CARRIAGE THEN triggers + 1 ELSE triggers
        /\ getc_ok' = TRUE
     \/ /\ getc_ok' = FALSE
        /\ UNCHANGED << uart_read_value, triggers >>
  /\ pc' = "check_key"
  /\ UNCHANGED << locals, held, stdout, invocations, acquired, failed, freed, draws >>

\* mutant: the result of the read is not tested
CheckKey_IgnoreReadResult ==
  /\ pc = "check_key"
  /\ IF uart_read_value = ASCII_RETURN_CARRIAGE
       THEN /\ pc' = "trng_init"
            /\ invocations' = invocations + 1
       ELSE /\ pc' = "getc"
            /\ UNCHANGED invocations
  /\ UNCHANGED << uart_read_value, getc_ok, locals, held, stdout,
                  triggers, acquired, failed, freed, draws >>

\* mutant: the key is compared with line feed
CheckKey_LineFeed ==
  /\ pc = "check_key"
  /\ IF getc_ok /\ uart_read_value = 10
       THEN /\ pc' = "trng_init"
            /\ invocations' = invocations + 1
       ELSE /\ pc' = "getc"
            /\ UNCHANGED invocations
  /\ UNCHANGED << uart_read_value, getc_ok, locals, held, stdout,
                  triggers, acquired, failed, freed, draws >>

CheckKey ==
  /\ pc = "check_key"
  /\ IF getc_ok /\ uart_read_value = ASCII_RETURN_CARRIAGE
       THEN /\ pc' = "trng_init"
            /\ invocations' = invocations + 1
       ELSE /\ pc' = "getc"
            /\ UNCHANGED invocations
  /\ UNCHANGED << uart_read_value, getc_ok, locals, held, stdout,
                  triggers, acquired, failed, freed, draws >>

\* ---- generate_password, current revision ----
\* entry: password = {0}, temp_value = 0, then cyhal_trng_init
TrngInit ==
  /\ pc = "trng_init"
  /\ password' = ZeroBuffer
  /\ temp_value' = 0
  /\ \E r \in {SUCCESS, FAILURE} :
       /\ result' = r
       /\ held' = (r = SUCCESS)
       /\ acquired' = IF r = SUCCESS THEN acquired + 1 ELSE acquired
       /\ failed' = IF r = SUCCESS THEN failed ELSE failed + 1
  /\ pc' = "check_result"
  /\ UNCHANGED << uart_read_value, getc_ok, index, j, bit_position, random_val,
                  candidate, words, stdout, triggers, invocations, freed, draws >>

\* mutant: the test of the result is inverted
CheckResult_Inverted ==
  /\ pc = "check_result"
  /\ IF result # SUCCESS
       THEN /\ index' = 0
            /\ pc' = "outer"
            /\ UNCHANGED << result, j, bit_position, random_val, temp_value,
                            password, candidate, words >>
       ELSE /\ pc' = "getc"
            /\ LocalsDiscarded
  /\ UNCHANGED << uart_read_value, getc_ok, held, stdout, history >>

\* mutant: the result is not tested
CheckResult_Ignored ==
  /\ pc = "check_result"
  /\ index' = 0
  /\ pc' = "outer"
  /\ UNCHANGED << result, j, bit_position, random_val, temp_value,
                  password, candidate, words >>
  /\ UNCHANGED << uart_read_value, getc_ok, held, stdout, history >>

\* if (result == CY_RSLT_SUCCESS) { for (index = 0; ... } else return
CheckResult ==
  /\ pc = "check_result"
  /\ IF result = SUCCESS
       THEN /\ index' = 0
            /\ pc' = "outer"
            /\ UNCHANGED << result, j, bit_position, random_val, temp_value,
                            password, candidate, words >>
       ELSE /\ pc' = "getc"
            /\ LocalsDiscarded
  /\ UNCHANGED << uart_read_value, getc_ok, held, stdout, history >>

\* outer loop test true: draw a word, bit_position = 0, j = 0
DrawWord ==
  /\ pc = "outer"
  /\ index < PASSWORD_LENGTH
  /\ \E w \in RandomWords :
       /\ random_val' = w
       /\ words' = Append(words, w)
  /\ draws' = draws + 1
  /\ bit_position' = 0
  /\ j' = 0
  /\ pc' = "inner"
  /\ UNCHANGED << uart_read_value, getc_ok, result, index, temp_value, password,
                  candidate, held, stdout, triggers, invocations, acquired,
                  failed, freed >>

\* outer loop test false
OuterExit ==
  /\ pc = "outer"
  /\ ~ (index < PASSWORD_LENGTH)
  /\ pc' = "terminate"
  /\ UNCHANGED << uart_read_value, getc_ok, locals, held, stdout, history >>

\* the test of the inner loop
InnerLoopCond_OffByOne(k) == k <= 4

InnerLoopCond(k) == k < 4

\* a store through an index outside the buffer does not change the buffer
Store(p, i, v) == IF i \in DOMAIN p THEN [p EXCEPT ![i] = v] ELSE p

\* mutant: bit_position is not advanced
InnerStep_NoAdvance ==
  /\ pc = "inner"
  /\ InnerLoopCond(j)
  /\ LET v == ToUint8(AndLowMask(ShiftRight(random_val, bit_position), ASCII_7BIT_MASK))
     IN  /\ candidate' = v
         /\ temp_value' = check_range(v)
         /\ password' = Store(password, index, check_range(v))
  /\ index' = index + 1
  /\ bit_position' = bit_position
  /\ j' = j + 1
  /\ UNCHANGED << pc, uart_read_value, getc_ok, result, random_val, words,
                  held, stdout, history >>

\* one iteration of the inner loop
InnerStep ==
  /\ pc = "inner"
  /\ InnerLoopCond(j)
  /\ LET v == ToUint8(AndLowMask(ShiftRight(random_val, bit_position), ASCII_7BIT_MASK))
     IN  /\ candidate' = v
         /\ temp_value' = check_range(v)
         /\ password' = Store(password, index, check_range(v))
  /\ index' = index + 1
  /\ bit_position' = (bit_position + 8) % 256
  /\ j' = j + 1
  /\ UNCHANGED << pc, uart_read_value, getc_ok, result, random_val, words,
                  held, stdout, history >>

InnerExit ==
  /\ pc = "inner"
  /\ ~ InnerLoopCond(j)
  /\ pc' = "outer"
  /\ UNCHANGED << uart_read_value, getc_ok, locals, held, stdout, history >>

\* password[index] = '\0'
Terminate ==
  /\ pc = "terminate"
  /\ password' = Store(password, index, 0)
  /\ pc' = "display"
  /\ UNCHANGED << uart_read_value, getc_ok, result, index, j, bit_position,
                  random_val, temp_value, candidate, words, held, stdout, history >>

\* the three printf calls
DisplayPassword ==
  /\ pc = "display"
  /\ stdout' = stdout \o << [kind |-> "otp", len |-> StrLen(password)],
                            [kind |-> "prompt", len |-> 0],
                            [kind |-> "header1", len |-> 0] >>
  /\ pc' = "free"
  /\ UNCHANGED << uart_read_value, getc_ok, locals, held, history >>

\* mutant: the block is not freed
TrngFree_Missing ==
  /\ pc = "free"
  /\ pc' = "getc"
  /\ LocalsDiscarded
  /\ UNCHANGED << uart_read_value, getc_ok, held, stdout, history >>

\* cyhal_trng_free, then return to the poll loop
TrngFree ==
  /\ pc = "free"
  /\ held' = FALSE
  /\ freed' = freed + 1
  /\ pc' = "getc"
  /\ LocalsDiscarded
  /\ UNCHANGED << uart_read_value, getc_ok, stdout, triggers, invocations,
                  acquired, failed, draws >>

Next ==
  \/ UartGetc
  \/ CheckKey
  \/ TrngInit
  \/ CheckResult
  \/ DrawWord
  \/ OuterExit
  \/ InnerStep
  \/ InnerExit
  \/ Terminate
  \/ DisplayPassword
  \/ TrngFree

Spec == Init /\ [][Next]_vars

\* ---- generate_password, earlier revision ----
\* entry: the buffer is not initialised, then cyhal_trng_init
TrngInitEarlier ==
  /\ pc = "trng_init"
  /\ \E g \in GarbageBytes : password' = [ i \in 0..PASSWORD_LENGTH |-> g ]
  /\ \E r \in {SUCCESS, FAILURE} :
       /\ result' = r
       /\ held' = (r = SUCCESS)
       /\ acquired' = IF r = SUCCESS THEN acquired + 1 ELSE acquired
       /\ failed' = IF r = SUCCESS THEN failed ELSE failed + 1
  /\ pc' = "check_result"
  /\ UNCHANGED << uart_read_value, getc_ok, index, j, bit_position, random_val,
                  temp_value, candidate, words, stdout, triggers, invocations,
                  freed, draws >>

\* one iteration of the loop: draw, mask, correct, store, index++
GenerateChar ==
  /\ pc = "outer"
  /\ index < PASSWORD_LENGTH
  /\ \E w \in RandomWords :
       LET masked == AndLowMask(w, MAX_TRNG_VAL)
       IN  /\ words' = Append(words, w)
           /\ candidate' = ToUint8(masked)
           /\ random_val' = range_correct_earlier(masked)
           /\ password' = Store(password, index, ToUint8(range_correct_earlier(masked)))
  /\ draws' = draws + 1
  /\ index' = index + 1
  /\ UNCHANGED << pc, uart_read_value, getc_ok, result, j, bit_position, temp_value,
                  held, stdout, triggers, invocations, acquired, failed, freed >>

NextEarlier ==
  \/ UartGetc
  \/ CheckKey
  \/ TrngInitEarlier
  \/ CheckResult
  \/ GenerateChar
  \/ OuterExit
  \/ Terminate
  \/ DisplayPassword
  \/ TrngFree

SpecEarlier == Init /\ [][NextEarlier]_vars

\* ---- check_range on its own: every 7-bit value is passed to it ----
CandidateBytes == 0..ASCII_7BIT_MASK

InitRange ==
  /\ pc = "call"
  /\ candidate \in CandidateBytes
  /\ temp_value = candidate
  /\ uart_read_value = 0
  /\ getc_ok = FALSE
  /\ result = SUCCESS
  /\ index = 0
  /\ j = 0
  /\ bit_position = 0
  /\ random_val = ZeroWord
  /\ password = ZeroBuffer
  /\ words = << >>
  /\ held = TRUE
  /\ stdout = Banner
  /\ triggers = 0
  /\ invocations = 0
  /\ acquired = 0
  /\ failed = 0
  /\ freed = 0
  /\ draws = 0

\* temp_value = check_range(temp_value)
CheckRangeCall ==
  /\ pc = "call"
  /\ temp_value' = check_range(temp_value)
  /\ pc' = "ret"
  /\ UNCHANGED << uart_read_value, getc_ok, result, index, j, bit_position,
                  random_val, password, held, stdout, candidate, words, history >>

\* the next masked byte
NextCandidate ==
  /\ pc = "ret"
  /\ \E v \in CandidateBytes :
       /\ candidate' = v
       /\ temp_value' = v
  /\ pc' = "call"
  /\ UNCHANGED << uart_read_value, getc_ok, result, index, j, bit_position,
                  random_val, password, held, stdout, words, history >>

NextRange ==
  \/ CheckRangeCall
  \/ NextCandidate

SpecRange == InitRange /\ [][NextRange]_vars

\* ---- properties ----
\* number of password lines written to the terminal
Emitted == Cardinality({ i \in DOMAIN stdout : stdout[i].kind = "otp" })

InGenerate == pc \in {"check_result", "outer", "inner", "terminate", "display", "free"}

\* C1: every one of the 8 characters of every emitted password has a code
\* in [33,126] (checked on the buffer right after it was displayed).
C1_AllCharactersVisible ==
  (pc = "free") => \A k \in 0..(PASSWORD_LENGTH - 1) : password[k] \in 33..126

\* C2: an emitted password is exactly 8 non-zero characters at positions 0..7
\* followed by the terminator 0 at position 8; the write index never exceeds 8,
\* every store goes to a position within 0..8, and the displayed string has
\* length 8.
C2_ExactlyEightCharacters ==
  /\ index \in 0..PASSWORD_LENGTH
  /\ DOMAIN password = 0..PASSWORD_LENGTH
  /\ (pc = "inner" /\ j < 4) => index <= PASSWORD_LENGTH - 1
  /\ (pc = "terminate") => index = PASSWORD_LENGTH
  /\ (pc \in {"display", "free"}) =>
        /\ index = PASSWORD_LENGTH
        /\ password[PASSWORD_LENGTH] = 0
        /\ \A k \in 0..(PASSWORD_LENGTH - 1) : password[k] # 0
        /\ StrLen(password) = PASSWORD_LENGTH
  /\ \A i \in DOMAIN stdout : (stdout[i].kind = "otp") => (stdout[i].len = PASSWORD_LENGTH)

C2_Witness ==
  /\ pc = "free"
  /\ candidate = 32
  /\ password[0] = 33
  /\ password[7] = 65
  /\ stdout[Len(stdout) - 2] = [kind |-> "otp", len |-> 8]

\* C3: every carriage return read causes exactly one call of generate_password;
\* a call that acquires the entropy source emits exactly one password and is
\* back in the poll loop before the next read, so at every read the passwords
\* emitted number the triggers read minus the failed acquisitions.
C3_OnePasswordPerTrigger ==
  /\ invocations = triggers -
       (IF pc = "check_key" /\ getc_ok /\ uart_read_value = ASCII_RETURN_CARRIAGE THEN 1 ELSE 0)
  /\ invocations = acquired + failed + (IF pc = "trng_init" THEN 1 ELSE 0)
  /\ Emitted = freed + (IF pc = "free" THEN 1 ELSE 0)
  /\ (pc = "getc") =>
        /\ invocations = triggers
        /\ Emitted = acquired
        /\ Emitted = triggers - failed
        /\ Len(stdout) = Len(Banner) + 3 * acquired

C3_Witness ==
  /\ pc = "getc"
  /\ triggers = 2
  /\ failed = 0
  /\ Emitted = 2

\* C4: a successfully read byte other than 0x0D writes nothing, acquires
\* nothing, draws nothing and sends the loop straight back to polling.
C4_NonTriggerSilent ==
  [][ /\ (pc = "getc") =>
           UNCHANGED << stdout, held, invocations, acquired, failed, freed, draws >>
      /\ (pc = "check_key" /\ getc_ok /\ uart_read_value # ASCII_RETURN_CARRIAGE) =>
           /\ pc' = "getc"
           /\ UNCHANGED << stdout, held, invocations, acquired, failed, freed, draws, locals >>
    ]_vars

C4_Witness ==
  /\ pc = "getc"
  /\ getc_ok
  /\ uart_read_value = 65
  /\ stdout = Banner
  /\ invocations = 0
  /\ draws = 0

\* C5: when cyhal_trng_init fails, generate_password writes nothing, draws no
\* word, does not call cyhal_trng_free and returns to the poll loop without
\* the handle.
C5_AcquisitionFailureSilent ==
  [][ /\ (pc = "trng_init" /\ result' = FAILURE) =>
           /\ pc' = "check_result"
           /\ ~ held'
           /\ UNCHANGED << stdout, draws, freed >>
      /\ (pc = "check_result" /\ result = FAILURE) =>
           /\ pc' = "getc"
           /\ ~ held'
           /\ UNCHANGED << stdout, draws, freed, acquired >>
    ]_vars

\* a failed acquisition on the first trigger, a password on the second
C5_Witness ==
  /\ pc = "free"
  /\ failed = 1
  /\ acquired = 1
  /\ invocations = 2
  /\ Emitted = 1

\* C6: the handle is held exactly from a successful cyhal_trng_init to the one
\* cyhal_trng_free of the same call; it is never held while polling; words are
\* drawn only while it is held; the password is displayed before the release.
C6_AcquireReleasePaired ==
  /\ [] /\ acquired = freed + (IF held THEN 1 ELSE 0)
        /\ (pc \in {"getc", "check_key", "trng_init"}) => ~ held
        /\ (pc \in {"outer", "inner", "terminate", "display", "free"}) => held
  /\ [][ /\ (draws' # draws) => held
         /\ (acquired' # acquired) => (~ held /\ held' /\ acquired' = acquired + 1)
         /\ (freed' # freed) =>
              /\ held
              /\ ~ held'
              /\ freed' = freed + 1
              /\ Emitted = acquired
              /\ pc' = "getc"
       ]_vars

C6_Witness ==
  /\ pc = "getc"
  /\ acquired = 2
  /\ freed = 2
  /\ draws = 4
  /\ ~ held

C8_TwoWordsFourBytesEach ==
  /\ Len(words) <= 2
  /\ draws = 2 * freed + Len(words)
  /\ (pc = "outer") => index = 4 * Len(words)
  /\ (pc = "inner") => (index = 4 * (Len(words) - 1) + j /\ bit_position = 8 * j)
  /\ (pc \in {"terminate", "display", "free"}) => Len(words) = 2
  /\ (pc \in {"outer", "inner", "terminate", "display", "free"}) =>
        \A k \in 0..(PASSWORD_LENGTH - 1) :
           (k < index) =>
              password[k] = check_range(words[(k \div 4) + 1][(k % 4) + 1] % 128)

C8_Witness ==
  /\ pc = "free"
  /\ words = << <<127, 32, 33, 126>>, <<0, 255, 128, 160>> >>
  /\ password = [ i \in 0..8 |->
                    IF i = 0 THEN 127 ELSE IF i = 1 THEN 65 ELSE IF i = 2 THEN 33
                    ELSE IF i = 3 THEN 126 ELSE IF i = 4 THEN 33 ELSE IF i = 5 THEN 127
                    ELSE IF i = 6 THEN 33 ELSE IF i = 7 THEN 65 ELSE 0 ]

\* the correction of the earlier revision, stated on numbers
EarlierExpected(v) == IF v < 33 THEN v + 33 ELSE IF v >= 127 THEN v - 33 ELSE v

\* C9: the earlier revision draws one word per character, 8 per password;
\* character k is the low 7 bits v of word k mapped to v + 33 if v < 33, to
\* v - 33 if v >= 127 and to v otherwise; every character lies in [33,126];
\* 0, 32, 33, 126, 127 map to 33, 65, 33, 126, 94.
C9_EarlierRevision ==
  /\ Len(words) <= PASSWORD_LENGTH
  /\ draws = PASSWORD_LENGTH * freed + Len(words)
  /\ (pc \in {"outer", "terminate", "display", "free"}) =>
        /\ Len(words) = index
        /\ \A k \in 0..(PASSWORD_LENGTH - 1) :
              (k < index) =>
                 /\ password[k] = EarlierExpected(words[k + 1][1] % 128)
                 /\ password[k] \in 33..126
  /\ (pc \in {"terminate", "display", "free"}) => Len(words) = PASSWORD_LENGTH
  /\ ToUint8(range_correct_earlier(<<0, 0, 0, 0>>)) = 33
  /\ ToUint8(range_correct_earlier(<<32, 0, 0, 0>>)) = 65
  /\ ToUint8(range_correct_earlier(<<33, 0, 0, 0>>)) = 33
  /\ ToUint8(range_correct_earlier(<<126, 0, 0, 0>>)) = 126
  /\ ToUint8(range_correct_earlier(<<127, 0, 0, 0>>)) = 94

C9_Witness ==
  /\ pc = "free"
  /\ Len(words) = 8
  /\ words[1][1] = 127
  /\ words[2][1] = 0
  /\ words[3][1] = 32
  /\ password[0] = 94
  /\ password[1] = 33
  /\ password[2] = 65

\* C10: generate_password is called only in an iteration whose read succeeded
\* and delivered 0x0D, so the calls never outnumber the carriage returns read,
\* even while the input buffer still holds 0x0D after a failed read.
C10_FailedReadNeverTriggers ==
  /\ [](invocations <= triggers)
  /\ [][ (invocations' # invocations) =>
            /\ pc = "check_key"
            /\ getc_ok
            /\ uart_read_value = ASCII_RETURN_CARRIAGE
            /\ invocations' = invocations + 1
       ]_vars

\* a failed read was tested while the buffer still held 0x0D, and no call followed
C10_Witness ==
  /\ pc = "getc"
  /\ ~ getc_ok
  /\ uart_read_value = ASCII_RETURN_CARRIAGE
  /\ invocations = 1
  /\ triggers = 1
  /\ acquired + failed = 1

====
